---- MODULE Spec2Model ----
(***************************************************************************)
(* Model of generate-large-csv.py: the generator generate_large_csv and    *)
(* the __main__ dispatch on the size selector.                             *)
(*                                                                         *)
(* Units.  Money is kept in cents (unit_price 5.99 is 599), a discount in  *)
(* percent (0.15 is 15), a rating in tenths (4.5 is 45).  A Python string  *)
(* that the program builds or inspects character by character (the         *)
(* selector, the formatted ids) is a sequence of one-character strings;    *)
(* a string the program only passes around (a path, a category name) is a  *)
(* TLA+ string.  The sink holds the lists handed to csv.writer.writerow;   *)
(* the writer's quoting and line terminator are not modelled, nor is       *)
(* datetime.isoformat (a timestamp stays the drawn <<days, hours,          *)
(* minutes>> offset from 2020-01-01).                                      *)
(***************************************************************************)
EXTENDS Integers, Sequences, FiniteSets

VARIABLES
    argv,               \* sys.argv[1:], each argument a character sequence
    pc,                 \* "main", "call", "loop", "report", "done", "failed"
    filename,           \* generate_large_csv's filename argument
    num_rows,           \* generate_large_csv's num_rows argument
    progress_interval,  \* num_rows // 20, set once the file is open
    i,                  \* iterations of the for loop completed
    sink,               \* the lists written to the csv file, in order
                        \* (under SpecMain the header only, see IterateBlock)
    isOpen,             \* the file object of the with block is open
    opens,              \* calls of open() made
    calls,              \* calls of generate_large_csv made
    stdout,             \* the lines printed, in order
    rec,                \* the locals of the latest loop iteration
    drawn,              \* the outcome index random.choice drew for discount
    fault               \* the exception that ended the run, or "none"

vars == <<argv, pc, filename, num_rows, progress_interval, i, sink, isOpen,
          opens, calls, stdout, rec, drawn, fault>>

(***************************************************************************)
(* Bounds of the model.                                                    *)
(***************************************************************************)
\* Under Spec, generate_large_csv is called with num_rows in 0..MaxRows and
\* every row draws one representative of each sample set below.
MaxRows == 41
\* Under SpecRows, it is called with num_rows in 0..MaxRichRun, and the first
\* MaxRichRows rows of a run draw their random fields from the whole sample
\* sets; later rows draw one representative of each.
MaxRichRun == 20
MaxRichRows == 1

(***************************************************************************)
(* Strings as character sequences.                                         *)
(***************************************************************************)
UpperChars == <<"A","B","C","D","E","F","G","H","I","J","K","L","M",
                "N","O","P","Q","R","S","T","U","V","W","X","Y","Z">>
LowerChars == <<"a","b","c","d","e","f","g","h","i","j","k","l","m",
                "n","o","p","q","r","s","t","u","v","w","x","y","z">>

\* str.lower on one character.
LowerChar(c) ==
    IF \E k \in DOMAIN UpperChars : UpperChars[k] = c
    THEN LowerChars[CHOOSE k \in DOMAIN UpperChars : UpperChars[k] = c]
    ELSE c

\* str.lower
Lower(s) == [k \in DOMAIN s |-> LowerChar(s[k])]

DigitChars == <<"0","1","2","3","4","5","6","7","8","9">>

\* The decimal digits of a natural number, most significant first (format 'd').
RECURSIVE Digits(_)
Digits(n) ==
    IF n < 10 THEN <<DigitChars[n + 1]>>
    ELSE Append(Digits(n \div 10), DigitChars[(n % 10) + 1])

\* Format spec '0<w>d': zero-padded on the left to at least w characters.
RECURSIVE ZeroPad(_, _)
ZeroPad(ds, w) == IF Len(ds) >= w THEN ds ELSE ZeroPad(<<"0">> \o ds, w)

\* Variant of TransactionId that numbers the rows from 0.
TransactionId_from_i(k) == <<"T","X","N">> \o ZeroPad(Digits(k), 8)

\* f"TXN{i+1:08d}"
TransactionId(k) == <<"T","X","N">> \o ZeroPad(Digits(k + 1), 8)

\* f"CUST{n:06d}"
CustomerId(n) == <<"C","U","S","T">> \o ZeroPad(Digits(n), 6)

\* f"PROD{n:05d}"
ProductId(n) == <<"P","R","O","D">> \o ZeroPad(Digits(n), 5)

(***************************************************************************)
(* The tables of generate_large_csv.                                       *)
(***************************************************************************)
headers ==
    <<"transaction_id", "timestamp", "customer_id", "product_id",
      "category", "quantity", "unit_price", "total_amount",
      "payment_method", "store_location", "discount_applied",
      "customer_age", "customer_segment", "rating", "returned">>

categories == <<"Electronics", "Clothing", "Food", "Home", "Sports",
                "Books", "Toys", "Beauty">>
payment_methods == <<"Credit Card", "Debit Card", "Cash", "Mobile Payment",
                     "Gift Card">>
locations == <<"New York", "Los Angeles", "Chicago", "Houston", "Phoenix",
               "Philadelphia">>
segments == <<"Regular", "Silver", "Gold", "Platinum">>

\* Variant of DiscountChoices with a fourth zero entry.
DiscountChoices_four_zeros == <<0, 0, 0, 0, 10, 15, 20, 25>>

\* The list random.choice draws the discount from, in percent.
DiscountChoices == <<0, 0, 0, 10, 15, 20, 25>>

ReturnedChoices == <<"Yes", "No", "No", "No", "No">>

\* random.choice(seq) returns seq[k] for a uniformly drawn index k.
ChoiceOutcomes(seq) == DOMAIN seq

(***************************************************************************)
(* The samples of the random draws.  Each is a subset of the range the     *)
(* code draws from; the ranges themselves are too large to enumerate.      *)
(***************************************************************************)
QuantitySample == {1, 10}                   \* of random.randint(1, 10)
UnitPriceSample == {599, 601}               \* of round(uniform(5.99, 999.99), 2)
RatingSample == {45}                        \* of round(uniform(1, 5), 1), tenths
RatedSample == {TRUE, FALSE}                \* random.random() > 0.1
TimestampSample == {<<1095, 23, 59>>}       \* days, hours, minutes
CustomerSample == {50000}                   \* of random.randint(1, 50000)
ProductSample == {5000}                     \* of random.randint(1, 5000)
AgeSample == {18}                           \* of random.randint(18, 80)
CategorySample == {8}                       \* indices into categories
PaymentSample == {5}                        \* indices into payment_methods
LocationSample == {6}                       \* indices into locations
SegmentSample == {4}                        \* indices into segments
ReturnedSample == {1}                       \* indices into ReturnedChoices

\* The draws open to the row at loop index k.
Pick(S, rich, k) ==
    IF rich /\ k < MaxRichRows THEN S ELSE {CHOOSE x \in S : TRUE}

(***************************************************************************)
(* Arithmetic of the loop body.                                            *)
(***************************************************************************)
\* round(x, 2) of a float x whose exact value is x100 hundredths of a cent.
\* Away from a tie the nearest cent; at an exact tie the binary float lies
\* on either side of it, so either neighbour can result.
RoundCents(x100) ==
    IF x100 % 100 = 50 THEN {x100 \div 100, x100 \div 100 + 1}
    ELSE {(x100 + 50) \div 100}

\* Variant of TotalAmounts that rounds the discounted unit price and then
\* multiplies by the quantity.
TotalAmounts_rounding_first(quantity, unit_price, discount) ==
    {quantity * t : t \in RoundCents(unit_price * (100 - discount))}

\* round(quantity * unit_price * (1 - discount), 2), in cents.
TotalAmounts(quantity, unit_price, discount) ==
    RoundCents(quantity * unit_price * (100 - discount))

\* num_rows // 20
ProgressInterval(n) == n \div 20

\* Variant of ProgressDue that tests the loop index itself.
ProgressDue_from_i(k, interval) == k % interval = 0

\* (i + 1) % progress_interval == 0, for a non-zero progress_interval.
ProgressDue(k, interval) == (k + 1) % interval = 0

\* f"{x:.0f}" of x = rows / n * 100: the nearest integer, a tie to even
\* (taken on the exact quotient; the float's own error is not modelled).
Percent(rows, n) ==
    LET q == (100 * rows) \div n
        r == (100 * rows) % n
    IN  IF 2 * r > n \/ (2 * r = n /\ q % 2 = 1) THEN q + 1 ELSE q

\* Variant of LoopContinues that enters the body once before testing.
LoopContinues_do_while(k, n) == k < n \/ k = 0

\* for i in range(num_rows): the loop body runs again.
LoopContinues(k, n) == k < n

(***************************************************************************)
(* Printed lines.                                                          *)
(***************************************************************************)
Line(kind, s, n, m) == [kind |-> kind, s |-> s, n |-> n, m |-> m]

ProgressLine(rows, n) == Line("progress", "", rows, Percent(rows, n))

\* The four lines printed after the with block; the size is kept as the
\* number of records in the file, bytes are not modelled.
Report(file, n, records) ==
    << Line("generated", file, 0, 0),
       Line("size", "", records, 0),
       Line("columns", "", Len(headers), 0),
       Line("rows", "", n, 0) >>

NoRec == [k \in {} |-> 0]

\* The locals of the loop iteration at index k, as a record keyed by
\* variable name, from the iteration's random draws d and the rounded total.
Locals(k, d, total_amount) ==
    [ transaction_id   |-> TransactionId(k),
      timestamp        |-> d.timestamp,
      customer_id      |-> CustomerId(d.customer),
      product_id       |-> ProductId(d.product),
      category         |-> categories[d.category],
      quantity         |-> d.quantity,
      unit_price       |-> d.unit_price,
      discount         |-> DiscountChoices[d.discount],
      total_amount     |-> total_amount,
      payment_method   |-> payment_methods[d.payment],
      store_location   |-> locations[d.location],
      discount_applied |-> DiscountChoices[d.discount],
      customer_age     |-> d.age,
      customer_segment |-> segments[d.segment],
      rating           |-> IF d.rated THEN d.rating ELSE "",
      returned         |-> ReturnedChoices[d.returned] ]

\* Variant of RowOf with discount_applied ahead of total_amount.
RowOf_discount_first(r) ==
    << r.transaction_id, r.timestamp, r.customer_id, r.product_id,
       r.category, r.quantity, r.unit_price, r.discount_applied,
       r.total_amount, r.payment_method, r.store_location,
       r.customer_age, r.customer_segment, r.rating, r.returned >>

\* The list handed to writer.writerow for the locals r.
RowOf(r) ==
    << r.transaction_id, r.timestamp, r.customer_id, r.product_id,
       r.category, r.quantity, r.unit_price, r.total_amount,
       r.payment_method, r.store_location, r.discount_applied,
       r.customer_age, r.customer_segment, r.rating, r.returned >>

\* Variant of WithExit for a file opened without a with block.
WithExit_leaks(open) == open

\* Whether the file is open once control has left the with block, given
\* whether it was open inside: the file object's __exit__ closes it, on a
\* normal exit and on an exception alike.
WithExit(open) == FALSE

(***************************************************************************)
(* generate_large_csv                                                      *)
(***************************************************************************)
\* Lines 13-35: the first print, open(), the header row, progress_interval.
Open ==
    /\ pc = "call"
    /\ stdout' = Append(stdout, Line("generating", "", num_rows, 0))
    /\ opens' = opens + 1
    /\ isOpen' = TRUE
    /\ sink' = <<headers>>
    /\ progress_interval' = ProgressInterval(num_rows)
    /\ i' = 0
    /\ pc' = "loop"
    /\ UNCHANGED <<argv, filename, num_rows, calls, rec, drawn, fault>>

\* Lines 13-30 when open() raises (the directory is missing or unwritable).
OpenFails ==
    /\ pc = "call"
    /\ stdout' = Append(stdout, Line("generating", "", num_rows, 0))
    /\ opens' = opens + 1
    /\ fault' = "OSError"
    /\ pc' = "failed"
    /\ UNCHANGED <<argv, filename, num_rows, progress_interval, i, sink,
                   isOpen, calls, rec, drawn>>

\* Lines 37-71: one iteration of the for loop.  The row is written, then the
\* modulus is evaluated: with progress_interval = 0 it raises
\* ZeroDivisionError, which leaves the with block and ends the run.
IterateSampled(rich) ==
    /\ pc = "loop"
    /\ LoopContinues(i, num_rows)
    /\ \E ts \in Pick(TimestampSample, rich, i),
          cust \in Pick(CustomerSample, rich, i),
          prod \in Pick(ProductSample, rich, i),
          cat \in Pick(CategorySample, rich, i),
          quantity \in Pick(QuantitySample, rich, i),
          unit_price \in Pick(UnitPriceSample, rich, i),
          k \in Pick(ChoiceOutcomes(DiscountChoices), rich, i),
          pay \in Pick(PaymentSample, rich, i),
          loc \in Pick(LocationSample, rich, i),
          age \in Pick(AgeSample, rich, i),
          seg \in Pick(SegmentSample, rich, i),
          rated \in Pick(RatedSample, rich, i),
          rating \in Pick(RatingSample, rich, i),
          ret \in Pick(ReturnedSample, rich, i) :
        LET d == [ timestamp |-> ts, customer |-> cust, product |-> prod,
                   category |-> cat, quantity |-> quantity,
                   unit_price |-> unit_price, discount |-> k,
                   payment |-> pay, location |-> loc, age |-> age,
                   segment |-> seg, rated |-> rated, rating |-> rating,
                   returned |-> ret ]
        IN  \E total_amount \in TotalAmounts(quantity, unit_price,
                                             DiscountChoices[k]) :
                LET r == Locals(i, d, total_amount)
                IN  /\ rec' = r
                    /\ drawn' = k
                    /\ sink' = Append(sink, RowOf(r))
    /\ IF progress_interval = 0
       THEN /\ fault' = "ZeroDivisionError"
            /\ isOpen' = WithExit(isOpen)
            /\ pc' = "failed"
            /\ UNCHANGED <<i, stdout>>
       ELSE /\ stdout' = IF ProgressDue(i, progress_interval)
                         THEN Append(stdout, ProgressLine(i + 1, num_rows))
                         ELSE stdout
            /\ i' = i + 1
            /\ UNCHANGED <<pc, isOpen, fault>>
    /\ UNCHANGED <<argv, filename, num_rows, progress_interval, opens, calls>>

\* The iteration with one representative draw per field.
Iterate == IterateSampled(FALSE)

\* The iteration with its first rows drawn from the whole sample sets.
IterateRich == IterateSampled(TRUE)

\* Line 72: the loop is exhausted and control leaves the with block.
Close ==
    /\ pc = "loop"
    /\ ~LoopContinues(i, num_rows)
    /\ isOpen' = WithExit(isOpen)
    /\ pc' = "report"
    /\ UNCHANGED <<argv, filename, num_rows, progress_interval, i, sink,
                   opens, calls, stdout, rec, drawn, fault>>

\* Lines 73-79: the completion report.
Finish ==
    /\ pc = "report"
    /\ stdout' = stdout \o Report(filename, num_rows, 1 + i)
    /\ pc' = "done"
    /\ UNCHANGED <<argv, filename, num_rows, progress_interval, i, sink,
                   isOpen, opens, calls, rec, drawn, fault>>

\* A direct call generate_large_csv(filename, num_rows), at its entry.
Entry(maxRows) ==
    /\ argv = <<>>
    /\ pc = "call"
    /\ filename = "out.csv"
    /\ num_rows \in 0..maxRows
    /\ progress_interval = 0
    /\ i = 0
    /\ sink = <<>>
    /\ isOpen = FALSE
    /\ opens = 0
    /\ calls = 1
    /\ stdout = <<>>
    /\ rec = NoRec
    /\ drawn = 0
    /\ fault = "none"

Init == Entry(MaxRows)

InitRows == Entry(MaxRichRun)

Next == Open \/ OpenFails \/ Iterate \/ Close \/ Finish

Spec == Init /\ [][Next]_vars

NextRows == Open \/ OpenFails \/ IterateRich \/ Close \/ Finish

SpecRows == InitRows /\ [][NextRows]_vars

(***************************************************************************)
(* __main__                                                                *)
(***************************************************************************)
S_small  == <<"s","m","a","l","l">>
S_medium == <<"m","e","d","i","u","m">>
S_large  == <<"l","a","r","g","e">>
S_xlarge == <<"x","l","a","r","g","e">>

Path_small  == "test-datasets/large/transactions-small.csv"
Path_medium == "test-datasets/large/transactions-medium.csv"
Path_large  == "test-datasets/large/transactions-large.csv"
Path_xlarge == "test-datasets/large/transactions-xlarge.csv"

CallOf(file, n) == [call |-> TRUE, filename |-> file, num_rows |-> n]
NoCall == [call |-> FALSE, filename |-> "", num_rows |-> 0]

\* Variant of Preset whose last branch runs the medium preset.
Preset_unknown_runs_medium(size) ==
    IF size = S_small THEN CallOf(Path_small, 10000)
    ELSE IF size = S_large THEN CallOf(Path_large, 1000000)
    ELSE IF size = S_xlarge THEN CallOf(Path_xlarge, 5000000)
    ELSE CallOf(Path_medium, 100000)

\* Lines 85-94: the if/elif chain over the lower-cased selector.
Preset(size) ==
    IF size = S_small THEN CallOf(Path_small, 10000)
    ELSE IF size = S_medium THEN CallOf(Path_medium, 100000)
    ELSE IF size = S_large THEN CallOf(Path_large, 1000000)
    ELSE IF size = S_xlarge THEN CallOf(Path_xlarge, 5000000)
    ELSE NoCall

\* Variant of Dispatch whose default is the function's own default size.
Dispatch_default_large(args) ==
    IF Len(args) > 0 THEN Preset(Lower(args[1]))
    ELSE CallOf(Path_large, 1000000)

\* Lines 83-97: what the command line (sys.argv[1:]) leads to.
Dispatch(args) ==
    IF Len(args) > 0 THEN Preset(Lower(args[1]))
    ELSE CallOf(Path_medium, 100000)

\* Lines 81-97 up to the call: the selector is matched and either
\* generate_large_csv is entered or the usage line is printed.
Main ==
    /\ pc = "main"
    /\ LET d == Dispatch(argv)
       IN  IF d.call
           THEN /\ filename' = d.filename
                /\ num_rows' = d.num_rows
                /\ calls' = calls + 1
                /\ pc' = "call"
                /\ UNCHANGED stdout
           ELSE /\ stdout' = Append(stdout, Line("usage", "", 0, 0))
                /\ pc' = "done"
                /\ UNCHANGED <<filename, num_rows, calls>>
    /\ UNCHANGED <<argv, progress_interval, i, sink, isOpen, opens, rec,
                   drawn, fault>>

\* Lines 37-71 for progress_interval consecutive iterations starting at a
\* multiple of progress_interval: the modulus is zero in the last of them
\* only, which prints the one progress line of the block.  The presets run
\* to millions of rows, so under SpecMain the rows of a block are counted by
\* i and are not appended to sink.
IterateBlock ==
    /\ pc = "loop"
    /\ LoopContinues(i, num_rows)
    /\ progress_interval > 0
    /\ i % progress_interval = 0
    /\ i + progress_interval <= num_rows
    /\ ProgressDue(i + progress_interval - 1, progress_interval)
    /\ i' = i + progress_interval
    /\ stdout' = Append(stdout, ProgressLine(i + progress_interval, num_rows))
    /\ UNCHANGED <<argv, pc, filename, num_rows, progress_interval, sink,
                   isOpen, opens, calls, rec, drawn, fault>>

\* The command lines tried: sys.argv[1:].
ArgvSample ==
    { <<>>,
      <<S_small>>, <<S_medium>>, <<S_large>>, <<S_xlarge>>,
      << <<"S","M","A","L","L">> >>, << <<"M","e","d","i","u","m">> >>,
      << <<"L","a","r","g","E">> >>, << <<"X","L","a","r","g","e">> >>,
      << <<"x","y","z">> >>, << <<"s","m","a","l">> >>, << <<>> >>,
      << <<"h","u","g","e">> >>, << <<"s","m","a","l","l"," ">> >>,
      <<S_small, S_large>>, << <<"x","y","z">>, S_small >> }

\* The process at the start of the __main__ block.
InitMain ==
    /\ argv \in ArgvSample
    /\ pc = "main"
    /\ filename = ""
    /\ num_rows = 0
    /\ progress_interval = 0
    /\ i = 0
    /\ sink = <<>>
    /\ isOpen = FALSE
    /\ opens = 0
    /\ calls = 0
    /\ stdout = <<>>
    /\ rec = NoRec
    /\ drawn = 0
    /\ fault = "none"

NextMain == Main \/ Open \/ OpenFails \/ IterateBlock \/ Close \/ Finish

SpecMain == InitMain /\ [][NextMain]_vars

(***************************************************************************)
(* Properties.  Those of the loop are checked under Spec, those of a row's *)
(* content under SpecRows, those of the command line under SpecMain.       *)
(***************************************************************************)
\* The progress lines printed so far, in order.
ProgressLines == SelectSeq(stdout, LAMBDA l : l.kind = "progress")

\* The completion report has been printed.
Reported == \E k \in DOMAIN stdout : stdout[k].kind = "generated"

\* The number a transaction id carries: <<"T","X","N">> and then exactly
\* eight decimal digits; -1 for anything else.
TxnNumber(tid) ==
    IF /\ Len(tid) = 11
       /\ SubSeq(tid, 1, 3) = <<"T","X","N">>
       /\ \A k \in 4..11 : \E d \in 0..9 : DigitChars[d + 1] = tid[k]
    THEN LET dv(c) == CHOOSE d \in 0..9 : DigitChars[d + 1] = c
         IN  dv(tid[4]) * 10000000 + dv(tid[5]) * 1000000
             + dv(tid[6]) * 100000 + dv(tid[7]) * 10000 + dv(tid[8]) * 1000
             + dv(tid[9]) * 100 + dv(tid[10]) * 10 + dv(tid[11])
    ELSE -1

\* C1: for every positive row count N, once the sink is open the run
\* never fails, and when it has ended the sink holds the header record
\* followed by exactly N data records, the record at 0-based position r
\* being row r (no row missing, none duplicated).
C1_CompleteForEveryPositiveN ==
    (num_rows > 0 /\ sink # <<>>) =>
        /\ pc # "failed"
        /\ pc = "done" =>
            /\ Len(sink) = num_rows + 1
            /\ sink[1] = headers
            /\ \A r \in 0..(num_rows - 1) : TxnNumber(sink[r + 2][1]) = r + 1

\* C2: in every state, the data row at 0-based position r of the sink
\* carries the transaction id "TXN" followed by r+1 zero-padded to eight
\* digits, so the ids are pairwise different and increase along the file.
C2_TransactionIds ==
    /\ \A r \in 0..(Len(sink) - 2) : TxnNumber(sink[r + 2][1]) = r + 1
    /\ \A r1, r2 \in 0..(Len(sink) - 2) :
           r1 < r2 => sink[r1 + 2][1] # sink[r2 + 2][1]
    /\ \A r \in 1..(Len(sink) - 2) :
           TxnNumber(sink[r + 1][1]) < TxnNumber(sink[r + 2][1])

\* C2 witness: a completed run whose file holds at least twenty data rows.
C2_Witness ==
    /\ pc = "done"
    /\ Len(sink) >= 21
    /\ sink[21][1] = <<"T","X","N","0","0","0","0","0","0","2","0">>

\* The column order of the data model's field table (discount_applied
\* ahead of total_amount, both ahead of payment_method).
Section3Columns ==
    <<"transaction_id", "timestamp", "customer_id", "product_id",
      "category", "quantity", "unit_price", "discount_applied",
      "total_amount", "payment_method", "store_location",
      "customer_age", "customer_segment", "rating", "returned">>

\* C3 as stated: the header is the first record, it lists the fifteen field
\* names in the order of the field table, and the row just written holds
\* the iteration's values in that same order.
C3_HeaderInSection3Order ==
    sink # <<>> =>
        /\ sink[1] = Section3Columns
        /\ Len(sink) >= 2 =>
               \A k \in 1..15 : sink[Len(sink)][k] = rec[Section3Columns[k]]

\* C3 amended: the header is the first record and lists the fifteen field
\* names in the order transaction_id, timestamp, customer_id, product_id,
\* category, quantity, unit_price, total_amount, payment_method,
\* store_location, discount_applied, customer_age, customer_segment, rating,
\* returned; every data row has fifteen values, and the row just written
\* holds the iteration's values in the header's order.
C3_HeaderInCodeOrder ==
    sink # <<>> =>
        /\ sink[1] = <<"transaction_id", "timestamp", "customer_id",
                       "product_id", "category", "quantity", "unit_price",
                       "total_amount", "payment_method", "store_location",
                       "discount_applied", "customer_age",
                       "customer_segment", "rating", "returned">>
        /\ \A r \in 2..Len(sink) : Len(sink[r]) = 15
        /\ Len(sink) >= 2 =>
               \A k \in 1..15 : sink[Len(sink)][k] = rec[sink[1][k]]

\* C3 witness: a data row with a discount has been written under the header.
C3_Witness ==
    /\ Len(sink) >= 2
    /\ sink[1][8] = "total_amount"
    /\ sink[1][11] = "discount_applied"
    /\ sink[2][11] = 25
    /\ sink[2][8] = rec.total_amount

\* The position of a column in the header record of the sink.
ColumnOf(name) == CHOOSE k \in DOMAIN sink[1] : sink[1][k] = name

\* C4: for every data row written, total_amount is a cent value nearest
\* to quantity * unit_price * (1 - discount_applied) of that same row (the
\* product is rounded, not its factors), and the discount_applied written
\* in the row is the discount the iteration computed total_amount from.
C4_TotalAmount ==
    /\ \A r \in 2..Len(sink) :
           LET q == sink[r][ColumnOf("quantity")]
               p == sink[r][ColumnOf("unit_price")]
               d == sink[r][ColumnOf("discount_applied")]
               t == sink[r][ColumnOf("total_amount")]
               exact == q * p * (100 - d)
           IN  /\ 100 * t - exact <= 50
               /\ exact - 100 * t <= 50
    /\ Len(sink) >= 2 =>
           sink[Len(sink)][ColumnOf("discount_applied")] = rec.discount

\* C4 witness: a row of quantity 1 at 6.01 with 15% off, whose exact amount
\* 5.1085 was rounded up to 5.11.
C4_Witness ==
    /\ Len(sink) >= 2
    /\ sink[2][ColumnOf("quantity")] = 1
    /\ sink[2][ColumnOf("unit_price")] = 601
    /\ sink[2][ColumnOf("discount_applied")] = 15
    /\ sink[2][ColumnOf("total_amount")] = 511

\* C5 as stated: no run with num_rows = 0 reaches the completion report or
\* ends successfully.
C5_ZeroRowsFails ==
    num_rows = 0 => (pc # "done" /\ ~Reported)

\* C5 amended: a run with num_rows = 0 never evaluates the modulus by the
\* zero progress interval, because the loop body is never entered: once the
\* sink is open it holds the header record only, no ZeroDivisionError is
\* raised, and the run ends with the sink closed and the completion report
\* printed with a row count of 0.
C5_ZeroRowsCompletes ==
    num_rows = 0 =>
        /\ fault # "ZeroDivisionError"
        /\ sink # <<>> => (sink = <<headers>> /\ pc # "failed")
        /\ ProgressLines = <<>>
        /\ pc = "done" =>
               /\ ~isOpen
               /\ \E k \in DOMAIN stdout :
                      stdout[k].kind = "rows" /\ stdout[k].n = 0

\* C5 witness: the run with num_rows = 0 has ended with its report.
C5_Witness ==
    /\ num_rows = 0
    /\ progress_interval = 0
    /\ pc = "done"
    /\ Reported

\* C6 as stated: when the selector is not one of small, medium, large and
\* xlarge as typed, the generator is never called, no file is opened or
\* written, and the run ends having printed the usage line only.
C6_UnlistedSelectorOnlyPrintsUsage ==
    (Len(argv) > 0 /\ argv[1] \notin {S_small, S_medium, S_large, S_xlarge}) =>
        /\ calls = 0
        /\ opens = 0
        /\ ~isOpen
        /\ sink = <<>>
        /\ pc \in {"main", "done"}
        /\ pc = "done" => stdout = <<Line("usage", "", 0, 0)>>

\* C6 amended: when the selector, taken in lower case, is not one of small,
\* medium, large and xlarge, the generator is never called, no file is
\* opened or written, and the run ends having printed the usage line only.
C6_UnknownSelectorOnlyPrintsUsage ==
    (Len(argv) > 0 /\ Lower(argv[1]) \notin {S_small, S_medium, S_large, S_xlarge}) =>
        /\ calls = 0
        /\ opens = 0
        /\ ~isOpen
        /\ sink = <<>>
        /\ pc \in {"main", "done"}
        /\ pc = "done" => stdout = <<Line("usage", "", 0, 0)>>

\* C6 witness: the run of selector xyz has ended with the usage line.
C6_Witness ==
    /\ argv = << <<"x","y","z">> >>
    /\ pc = "done"
    /\ stdout = <<Line("usage", "", 0, 0)>>
    /\ opens = 0

\* C7: an invocation calls the generator at most once, and the call's row
\* count and output path are those of the selector: small 10,000, medium
\* 100,000, large 1,000,000, xlarge 5,000,000, each to its own
\* transactions-<selector>.csv, and no argument the same as medium.
C7_PresetOfSelector ==
    /\ calls <= 1
    /\ opens <= calls
    /\ calls = 1 =>
        /\ (Len(argv) > 0 /\ argv[1] = S_small) =>
               /\ num_rows = 10000
               /\ filename = "test-datasets/large/transactions-small.csv"
        /\ (Len(argv) > 0 /\ argv[1] = S_medium) =>
               /\ num_rows = 100000
               /\ filename = "test-datasets/large/transactions-medium.csv"
        /\ (Len(argv) > 0 /\ argv[1] = S_large) =>
               /\ num_rows = 1000000
               /\ filename = "test-datasets/large/transactions-large.csv"
        /\ (Len(argv) > 0 /\ argv[1] = S_xlarge) =>
               /\ num_rows = 5000000
               /\ filename = "test-datasets/large/transactions-xlarge.csv"
        /\ Len(argv) = 0 =>
               /\ num_rows = 100000
               /\ filename = "test-datasets/large/transactions-medium.csv"
    /\ (pc # "main" /\ (Len(argv) = 0 \/ argv[1] \in {S_small, S_medium, S_large, S_xlarge})) =>
           calls = 1

\* C7 witness: the invocation without an argument has completed the
\* generation of 100,000 rows.
C7_Witness ==
    /\ argv = <<>>
    /\ pc = "done"
    /\ calls = 1
    /\ i = 100000
    /\ Reported

\* C8 as stated: a completed run of a positive row count has printed exactly
\* twenty progress lines, the last one at row N reporting 100%.
C8_ExactlyTwentyLines ==
    (pc = "done" /\ num_rows > 0) =>
        /\ Len(ProgressLines) = 20
        /\ ProgressLines[20].n = num_rows
        /\ ProgressLines[20].m = 100

\* C8 amended: a progress line is printed after a row exactly when the
\* number of rows written is a multiple of floor(N/20) and that interval is
\* not zero; each line carries that number of rows and its percentage of N,
\* rounded to a whole number.  So a completed run with N >= 20 has printed
\* floor(N / floor(N/20)) lines, which is exactly twenty, the last one at row
\* N reporting 100%, when N is a multiple of 20.
C8_LinePerInterval ==
    LET interval == num_rows \div 20
        lines == ProgressLines
    IN  /\ interval = 0 => lines = <<>>
        /\ interval > 0 =>
            /\ Len(lines) = i \div interval
            /\ \A j \in DOMAIN lines :
                   /\ lines[j].n = j * interval
                   /\ 2 * (100 * lines[j].n - lines[j].m * num_rows) <= num_rows
                   /\ 2 * (lines[j].m * num_rows - 100 * lines[j].n) <= num_rows
        /\ (pc = "done" /\ num_rows >= 20) =>
               Len(lines) = num_rows \div interval
        /\ (pc = "done" /\ num_rows > 0 /\ num_rows % 20 = 0) =>
            /\ Len(lines) = 20
            /\ lines[20].n = num_rows
            /\ lines[20].m = 100

\* C8 witness: the run of forty rows has completed with twenty lines, one
\* for every second row.
C8_Witness ==
    /\ pc = "done"
    /\ num_rows = 40
    /\ Len(ProgressLines) = 20
    /\ ProgressLines[1] = Line("progress", "", 2, 5)
    /\ ProgressLines[20] = Line("progress", "", 40, 100)

C10_OpenOnceClosedOnExit ==
    /\ opens <= 1
    /\ pc # "call" => opens = 1
    /\ isOpen => pc = "loop"
    /\ pc \in {"report", "done", "failed"} => ~isOpen
    /\ Reported =>
        /\ pc = "done"
        /\ ~isOpen
        /\ fault = "none"
        /\ i = num_rows
        /\ Len(sink) = num_rows + 1
    /\ (pc = "failed" \/ fault # "none") => ~Reported
    /\ pc = "done" => Reported

\* C10 witness: a run that failed inside the loop, its sink closed and no
\* report printed.
C10_Witness ==
    /\ pc = "failed"
    /\ fault = "ZeroDivisionError"
    /\ Len(sink) = 2
    /\ ~isOpen
    /\ ~Reported

====
